---- MODULE Spec2Model ----
(***************************************************************************)
(* State-machine model of the InteliSense resource core:                   *)
(*   - BrowserPool          (src/src/utils/browser-pool.js)                *)
(*   - Scheduler            (src/src/scheduler.js)                         *)
(*   - OptimizedScheduler   (src/unnamed/part_003)                         *)
(*   - CacheManager         (src/src/utils/monitor.js)                     *)
(*   - the retry loops      (src/unnamed/part_003,                         *)
(*                           src/src/scrapers/job-monitor.js)              *)
(* Everything runs on one Node.js event loop: an action is one synchronous *)
(* turn (the code between two suspension points), so actions interleave    *)
(* only at awaits, timers and emitted events.                              *)
(***************************************************************************)
EXTENDS Integers, Sequences, FiniteSets, TLC

\* ------------------------------------------------------------------ bounds
\* options.maxBrowsers of the pool under analysis
MaxBrowsers == 1
\* number of executeWithBrowser calls made in one behaviour
MaxCalls == 3

Calls == 1..MaxCalls
NoBrowser == 0

Min(a, b) == IF a < b THEN a ELSE b

VARIABLES
  \* ---- BrowserPool fields
  browsers,        \* this.browsers: sequence of [id, isActive, stale]
                   \*   stale: Date.now() - lastUsed > this.idleTimeout
  activeBrowsers,  \* this.activeBrowsers
  queue,           \* this.queue: the queued getBrowser calls, oldest first
  isShuttingDown,  \* this.isShuttingDown
  \* ---- environment of the pool
  nextBrowser,     \* identity of the next browser puppeteer.launch returns
  nextCall,        \* the next executeWithBrowser call to be made
  initPc,          \* initialize(): "idle" | "launching" | "done"
  initI,           \* initialize(): loop variable i
  shutPc,          \* shutdown()/cleanup(): "idle" | "closing" | "done"
  hcList,          \* healthCheck(): idleBrowsers still to be closed
  \* ---- one executeWithBrowser call each (fields reset when the call ends)
  pc,              \* "new" | "launching" | "waiting" | "running" | "done"
  held,            \* local variable browser of executeWithBrowser
  how,             \* how getBrowser returned: "none" | "idle" | "new" | "queue"
  lostActive,      \* the held browser disconnected while marked active
  decs,            \* decrements of activeBrowsers made by removeBrowser for
                   \*   the browser the call holds
  last,            \* what the executeWithBrowser call that ended last did
  \* ---- the scheduler of the process
  scheduler,       \* the class it is an instance of
  \* ---- Scheduler (src/src/scheduler.js)
  isRunning,       \* this.isRunning: permits, multiCityPermits, jobs, analysis
  multi,           \* runMultiCityDataCollection invocations awaiting allSettled:
                   \*   the state of their permits and jobs promises
  dataColl,        \* runDataCollection invocations inside their try block
  analysis,        \* runAnalysis invocations inside their try block
  timers,          \* pending setTimeout(() => this.runAnalysis(), 2000)
  \* ---- OptimizedScheduler (src/unnamed/part_003)
  optRunning,      \* this.isRunning: permits, jobs, analysis, report
  runners,         \* executeWithRetry invocations: job, pc, attempt
  stats,           \* this.stats
  optTimers,       \* pending setTimeout(() => this.runAnalysisWithRetry(), 5000)
  \* ---- both
  ev,              \* the guarded-task invocations made by the last step
  chain,           \* the run that the last step completed, and what it produced
  \* ---- one call of a retry loop, followed from its start to its end
  retry,           \* loop, limit, attempt, pc, calls, errors, result
  \* ---- the manual triggers of either scheduler class
  manual,          \* executions in progress of triggerPermitsScrape,
                   \*   triggerJobMonitor and triggerAnalysis
  \* ---- CacheManager (src/src/utils/monitor.js)
  clock,           \* Date.now(), in units of 300 s
  caches,          \* the four node-cache stores: key -> entry
  gpc,             \* getOrSet calls: "new" | "fetching" | "done"
  garg,            \* getOrSet calls awaiting fetchFunction: cache, key and
                   \*   the ttl cache.set will be given
  nextGet,         \* the next getOrSet call to be made
  cev,             \* what the last step of the cache manager did
  \* ---- OptimizedScheduler.runDataCollection and its timeoutPromise calls
  collect,         \* per executeWithRetry slot: the state of the two promises
                   \*   given to Promise.allSettled
  orphans          \* scrape() and monitorJobs() executions whose
                   \*   timeoutPromise has rejected and that are still running

poolVars == <<browsers, activeBrowsers, queue, isShuttingDown, nextBrowser,
              nextCall, initPc, initI, shutPc, hcList, pc, held, how,
              lostActive, decs, last>>

schedVars == <<scheduler, isRunning, multi, dataColl, analysis, timers, optRunning, runners,
               stats, optTimers, ev, chain>>

retryVars == <<retry>>

\* the variables outside the pool and the scheduler
triggerVars == <<manual>>

cacheVars == <<clock, caches, gpc, garg, nextGet, cev>>

timeoutVars == <<collect, orphans>>

restVars == <<retryVars, triggerVars, cacheVars, timeoutVars>>

vars == <<poolVars, schedVars, restVars>>

\* ------------------------------------------------------- BrowserPool helpers

BrowserIds == {browsers[i].id : i \in 1..Len(browsers)}

\* this.browsers.find(b => b.browser === browser) / findIndex: 0 when absent
IndexOf(bs, b) ==
  IF \E i \in 1..Len(bs) : bs[i].id = b
    THEN CHOOSE i \in 1..Len(bs) : bs[i].id = b
    ELSE 0

\* this.browsers.find(b => !b.isActive): the first idle entry, 0 when none
FirstIdle(bs) ==
  IF \E i \in 1..Len(bs) : ~bs[i].isActive
    THEN CHOOSE i \in 1..Len(bs) :
           /\ ~bs[i].isActive
           /\ \A j \in 1..(i - 1) : bs[j].isActive
    ELSE 0

\* Array.prototype.splice(index, 1)
Splice(bs, i) == [j \in 1..(Len(bs) - 1) |-> IF j < i THEN bs[j] ELSE bs[j + 1]]

\* this.browsers.push({ browser, lastUsed: Date.now(), isActive: false })
NewEntry(b) == [id |-> b, isActive |-> FALSE, stale |-> FALSE]

\* getBrowser line 112: may a new browser be launched
CanCreate(bs) == Len(bs) < MaxBrowsers

\* removeBrowser line 223 reads isActive from the puppeteer Browser handle, on
\* which the pool never sets it (the flag lives on the wrapper object kept in
\* this.browsers), so the test is always false
BrowserHandleIsActive(b) == FALSE

\* a release that pops the newest waiter instead of the oldest
DequeueNewest(q) == Len(q)

\* releaseBrowser line 147: this.queue.shift() takes the entry at index 1
DequeueIndex(q) == 1

\* an executeWithBrowser that releases on the return path only
ReleasesOnReturnOnly(b, threw) == b # NoBrowser /\ ~threw

\* executeWithBrowser line 175: the finally block releases iff browser is set
FinallyReleases(b, threw) == b # NoBrowser

\* removeBrowser(browser) applied to this.browsers
RemoveBrowser(bs, b) == IF IndexOf(bs, b) # 0 THEN Splice(bs, IndexOf(bs, b)) ELSE bs

\* healthCheck line 267: the entries that are idle for longer than idleTimeout
IdleBrowsers(bs) ==
  LET F[i \in 0..Len(bs)] ==
        IF i = 0 THEN <<>>
        ELSE IF ~bs[i].isActive /\ bs[i].stale
               THEN Append(F[i - 1], bs[i].id)
               ELSE F[i - 1]
  IN F[Len(bs)]

\* what executeWithBrowser leaves behind when it ends
Ended(got, opResult, reported, releases, lost, decrements) ==
  [how |-> got, opResult |-> opResult, outcome |-> reported,
   relCount |-> releases, lost |-> lost, decs |-> decrements]

\* executeWithBrowser when getBrowser failed with error e: catch rethrows it,
\* the finally block sees browser = null
GetBrowserFailed(e) ==
  Ended("none", "none", e, IF FinallyReleases(NoBrowser, TRUE) THEN 1 ELSE 0, FALSE, 0)

PoolInit ==
  /\ browsers = <<>>
  /\ activeBrowsers = 0
  /\ queue = <<>>
  /\ isShuttingDown = FALSE
  /\ nextBrowser = 1
  /\ nextCall = 1
  /\ initPc = "idle"
  /\ initI = 0
  /\ shutPc = "idle"
  /\ hcList = <<>>
  /\ pc = [c \in Calls |-> "new"]
  /\ held = [c \in Calls |-> NoBrowser]
  /\ how = [c \in Calls |-> "none"]
  /\ lostActive = [c \in Calls |-> FALSE]
  /\ decs = [c \in Calls |-> 0]
  /\ last = Ended("none", "none", "none", 0, FALSE, 0)

\* ------------------------------------------------------- Scheduler state

\* how many invocations of one task the model lets be in progress at once
MaxOverlap == 2

\* how many chained timers may be pending at once
MaxTimers == 1

\* how many executeWithRetry calls are followed to their end
MaxJobs == 3

\* the longest duration, in clock units, that executeWithRetry measures
MaxDuration == 1

\* this.maxRetries
maxRetries == 3

Slots == 1..MaxOverlap

Durations == 0..MaxDuration

\* the lowest slot of S, the one the next invocation is given
Lowest(S) == CHOOSE s \in S : \A t \in S : s <= t

RECURSIVE Gcd(_, _)
Gcd(a, b) == IF b = 0 THEN a ELSE Gcd(b, a % b)

\* a non-negative fraction in lowest terms, the value of a JS number that
\* arises as a quotient
Frac(n, d) == LET g == Gcd(n, d) IN [num |-> n \div g, den |-> d \div g]

\* if (this.isRunning.multiCityPermits) ... return 0
PermitsCollectionGuard(f) == f.multiCityPermits

\* if (this.isRunning.jobs) ... return 0
JobsCollectionGuard(f) == f.jobs

\* if (this.isRunning.permits || this.isRunning.jobs) ... return
DataCollectionGuard(f) == f.permits \/ f.jobs

\* a guard that reads a flag nothing ever sets
AnalysisGuardOnUnsetFlag(f) == FALSE

\* if (this.isRunning.analysis) ... return
AnalysisGuard(f) == f.analysis

\* one invocation of a guarded task of a scheduler class: whether its running flag was set when it
\* was invoked, whether it went on to invoke its body, and who invoked it
Invocation(class, task, flagSet, started, via) ==
  [class |-> class, task |-> task, flagSet |-> flagSet, started |-> started,
   via |-> via]

\* a run of a task that came to its end: a data collection with items
\* ("some") or without ("zero", "empty"), an error, a skipped invocation, or
\* an analysis or a report ("done")
Completion(class, task, items) == [class |-> class, task |-> task, items |-> items]

\* no run came to its end
NoChain == Completion("none", "none", "none")

\* totalItems of runMultiCityDataCollection: the values of the fulfilled parts
totalItems(parts) == IF "some" \in {parts.permits, parts.jobs} THEN "some" ELSE "zero"

\* a test that also takes an empty collection for new data
NewDataOrNone(items) == items \in {"some", "zero", "empty"}

\* totalItems > 0, permitResults.length > 0 || jobResults.length > 0
NewData(items) == items = "some"

\* a runMultiCityDataCollection that is not awaiting anything
NoCollection == [permits |-> "idle", jobs |-> "idle"]

\* an executeWithRetry slot that is not in use
NoRunner == [job |-> "none", pc |-> "free", attempt |-> 0]

FreeCollections == {m \in Slots : multi[m] = NoCollection}

FreeDataSlots == {s \in Slots : dataColl[s] = "free"}

FreeAnalysisSlots == {s \in Slots : analysis[s] = "free"}

FreeRunners == {r \in Slots : runners[r] = NoRunner}

\* updateStats(success, duration); averageJobTime is kept as an exact fraction
updateStats(st, success, duration) ==
  LET total == st.totalJobs + 1
      totalTime == st.averageJobTime.num * (total - 1) + duration * st.averageJobTime.den
  IN [totalJobs |-> total,
      lastRun |-> st.lastRun + 1,
      successfulJobs |-> IF success THEN st.successfulJobs + 1 ELSE st.successfulJobs,
      failedJobs |-> IF success THEN st.failedJobs ELSE st.failedJobs + 1,
      averageJobTime |-> Frac(totalTime, st.averageJobTime.den * total)]

SchedInit(class) ==
  /\ scheduler = class
  /\ isRunning = [permits |-> FALSE, multiCityPermits |-> FALSE, jobs |-> FALSE,
                  analysis |-> FALSE]
  /\ multi = [m \in Slots |-> NoCollection]
  /\ dataColl = [s \in Slots |-> "free"]
  /\ analysis = [s \in Slots |-> "free"]
  /\ timers = 0
  /\ optRunning = [permits |-> FALSE, jobs |-> FALSE, analysis |-> FALSE,
                   report |-> FALSE]
  /\ runners = [r \in Slots |-> NoRunner]
  /\ stats = [totalJobs |-> 0, successfulJobs |-> 0, failedJobs |-> 0,
              averageJobTime |-> Frac(0, 1), lastRun |-> 0]
  /\ optTimers = 0
  /\ ev = {}
  /\ chain = NoChain

\* ------------------------------------------------------------ CacheManager
\* (src/src/utils/monitor.js 475-660) over four node-cache stores created
\* with deleteOnExpire: true and useClones: false. Time is counted in units
\* of 300 s, the shortest TTL a caller passes (storeHealthReport).

\* how many getOrSet calls are made in one behaviour
MaxGets == 2

\* the last instant of the clock
MaxClock == 2

Regions == {"main", "ai", "db", "scraping"}

\* stdTTL of the four stores: 3600 s, 7200 s, 1800 s, 900 s
stdTTL == [main |-> 12, ai |-> 24, db |-> 6, scraping |-> 3]

\* cache keys and invalidation patterns, as strings of characters
Keys == {<<"a">>, <<"a", "b">>}

Patterns == {<<>>, <<"a">>, <<"b">>, <<"b", "a">>}

\* what a fetchFunction may resolve with
Values == {"data", "[]", "null", "0", "false", "''", "undefined"}

\* the argument ttl of getOrSet: null (the default), 0, or one unit
Ttls == {[given |-> FALSE, secs |-> 0], [given |-> TRUE, secs |-> 0],
         [given |-> TRUE, secs |-> 1]}

Gets == 1..MaxGets

NoEntry == [present |-> FALSE, v |-> "undefined", t |-> 0, at |-> 0, ttl |-> 0]

\* node-cache _wrap(value, ttl): livetime = now + ttl, or 0 for ttl = 0
Wrap(v, ttl, now) ==
  [present |-> TRUE, v |-> v, t |-> IF ttl = 0 THEN 0 ELSE now + ttl, at |-> now,
   ttl |-> ttl]

\* an expiry test that lets an entry live one unit longer
ExpiredLate(e, now) == e.present /\ e.t # 0 /\ e.t + 1 < now

\* node-cache _check(key, data): data.t !== 0 && data.t < Date.now()
Expired(e, now) == e.present /\ e.t # 0 /\ e.t < now

\* node-cache get(key): the value of a live entry, undefined otherwise
Get(e, now) == IF e.present /\ ~Expired(e, now) THEN e.v ELSE "undefined"

\* if (ttl) cache.set(key, data, ttl) else cache.set(key, data)
EffectiveTtl(region, ttl) ==
  IF ttl.given /\ ttl.secs # 0 THEN ttl.secs ELSE stdTTL[region]

\* a store with its expired keys deleted
Purge(store, now) == [k \in Keys |-> IF Expired(store[k], now) THEN NoEntry ELSE store[k]]

\* getCacheByType(type)
getCacheByType(type) == IF type \in Regions THEN type ELSE "null"

\* a failure handler that stores a fallback value under the key
CachesFailure(e, now) == Wrap("null", 1, now)

\* catch (error) { logger.error(...); throw error }: the entry under the key
\* after the fetchFunction has failed
AfterFailure(e, now) == e

\* a match on the beginning of the key only
StartsWith(key, pattern) ==
  Len(pattern) <= Len(key) /\ SubSeq(key, 1, Len(pattern)) = pattern

\* String.prototype.includes
Includes(key, pattern) ==
  \E i \in 0..(Len(key) - Len(pattern)) : SubSeq(key, i + 1, i + Len(pattern)) = pattern

NoArgs == [region |-> "none", key |-> <<>>, ttl |-> 0]

\* a step of the cache manager: the operation, the store and key it was on,
\* the entry cache.get or cache.set met under the key and its age, whether
\* getOrSet took it for a hit, and the value returned or the keys removed
CacheEvent(op, region, key, e, now, hit, returned, count) ==
  [op |-> op, region |-> region, key |-> key, found |-> e.present,
   age |-> IF e.present THEN now - e.at ELSE 0, ttl |-> e.ttl, stored |-> e.v,
   hit |-> hit, returned |-> returned, count |-> count]

NoEvent == CacheEvent("none", "none", <<>>, NoEntry, 0, FALSE, "undefined", 0)

CacheInit ==
  /\ clock = 0
  /\ caches = [r \in Regions |-> [k \in Keys |-> NoEntry]]
  /\ gpc = [c \in Gets |-> "new"]
  /\ garg = [c \in Gets |-> NoArgs]
  /\ nextGet = 1
  /\ cev = NoEvent


\* no retry loop has been called
NoRetry == [loop |-> "none", limit |-> 0, attempt |-> 0, pc |-> "idle", calls |-> 0,
            errors |-> <<>>, result |-> [kind |-> "none", of |-> 0]]

\* a slot whose runDataCollection awaits nothing
NoParts == [permits |-> "idle", jobs |-> "idle"]

TimeoutInit ==
  /\ collect = [r \in Slots |-> NoParts]
  /\ orphans = [permits |-> 0, jobs |-> 0]

RestInit ==
  /\ retry = NoRetry
  /\ manual = [permits |-> 0, jobs |-> 0, analysis |-> 0]
  /\ CacheInit
  /\ TimeoutInit

\* server.js: scheduler = new Scheduler()
Init == PoolInit /\ SchedInit("Scheduler") /\ RestInit

\* a process whose scheduler is of either class
SchedulerInit ==
  /\ PoolInit
  /\ \E class \in {"Scheduler", "OptimizedScheduler"} : SchedInit(class)
  /\ RestInit

\* ------------------------------------------------------ BrowserPool actions

\* initialize() up to its first await of createBrowser
InitializeStart ==
  /\ initPc = "idle"
  /\ ~isShuttingDown
  /\ initPc' = "launching"
  /\ UNCHANGED <<browsers, activeBrowsers, queue, isShuttingDown, nextBrowser,
                 nextCall, initI, shutPc, hcList, pc, held, how,
                 lostActive, decs, last,
                 schedVars, restVars>>

\* createBrowser as awaited by initialize(): the launch resolves, the entry is
\* pushed idle and the loop of initialize moves on
InitializeLaunched ==
  /\ initPc = "launching"
  /\ browsers' = Append(browsers, NewEntry(nextBrowser))
  /\ nextBrowser' = nextBrowser + 1
  /\ initI' = initI + 1
  /\ initPc' = IF initI + 1 < Min(2, MaxBrowsers) THEN "launching" ELSE "done"
  /\ UNCHANGED <<activeBrowsers, queue, isShuttingDown, nextCall, shutPc, hcList,
                 pc, held, how, lostActive, decs, last,
                 schedVars, restVars>>

\* puppeteer.launch rejects inside initialize(): createBrowser rethrows
InitializeFailed ==
  /\ initPc = "launching"
  /\ initPc' = "done"
  /\ UNCHANGED <<browsers, activeBrowsers, queue, isShuttingDown, nextBrowser,
                 nextCall, initI, shutPc, hcList, pc, held, how,
                 lostActive, decs, last,
                 schedVars, restVars>>

\* executeWithBrowser up to its first suspension: the synchronous part of
\* getBrowser
GetBrowser(c) ==
  /\ pc[c] = "new"
  /\ c = nextCall
  /\ nextCall' = nextCall + 1
  /\ IF isShuttingDown
       THEN /\ pc' = [pc EXCEPT ![c] = "done"]
            /\ last' = GetBrowserFailed("shutting_down")
            /\ UNCHANGED <<browsers, activeBrowsers, queue, held, how>>
       ELSE IF FirstIdle(browsers) # 0
         THEN /\ browsers' = [browsers EXCEPT ![FirstIdle(browsers)].isActive = TRUE,
                                              ![FirstIdle(browsers)].stale = FALSE]
              /\ activeBrowsers' = activeBrowsers + 1
              /\ pc' = [pc EXCEPT ![c] = "running"]
              /\ held' = [held EXCEPT ![c] = browsers[FirstIdle(browsers)].id]
              /\ how' = [how EXCEPT ![c] = "idle"]
              /\ UNCHANGED <<queue, last>>
         ELSE IF CanCreate(browsers)
           THEN /\ pc' = [pc EXCEPT ![c] = "launching"]
                /\ UNCHANGED <<browsers, activeBrowsers, queue, held, how, last>>
           ELSE /\ queue' = Append(queue, c)
                /\ pc' = [pc EXCEPT ![c] = "waiting"]
                /\ UNCHANGED <<browsers, activeBrowsers, held, how, last>>
  /\ UNCHANGED <<isShuttingDown, nextBrowser, initPc, initI, shutPc, hcList, lostActive, decs,
                 schedVars, restVars>>

\* puppeteer.launch resolves for a getBrowser call: createBrowser pushes the
\* entry idle and returns, getBrowser finds it, marks it active and returns it
LaunchDone(c) ==
  /\ pc[c] = "launching"
  /\ browsers' = Append(browsers, [NewEntry(nextBrowser) EXCEPT !.isActive = TRUE])
  /\ activeBrowsers' = activeBrowsers + 1
  /\ nextBrowser' = nextBrowser + 1
  /\ pc' = [pc EXCEPT ![c] = "running"]
  /\ held' = [held EXCEPT ![c] = nextBrowser]
  /\ how' = [how EXCEPT ![c] = "new"]
  /\ UNCHANGED <<queue, isShuttingDown, nextCall, initPc, initI, shutPc, hcList, lostActive, decs, last,
                 schedVars, restVars>>

\* puppeteer.launch rejects: createBrowser and getBrowser rethrow
LaunchFail(c) ==
  /\ pc[c] = "launching"
  /\ pc' = [pc EXCEPT ![c] = "done"]
  /\ last' = GetBrowserFailed("launch_error")
  /\ UNCHANGED <<browsers, activeBrowsers, queue, isShuttingDown, nextBrowser,
                 nextCall, initPc, initI, shutPc, hcList, held, how,
                 lostActive, decs,
                 schedVars, restVars>>

\* a queued call whose timer is never armed
TimerNeverArmed(c) == FALSE

\* the timer armed by a queued getBrowser call is pending until the call is
\* resolved by releaseBrowser or rejected by cleanup, which both clear it
TimerPending(c) == pc[c] = "waiting"

\* the setTimeout callback of a queued getBrowser call, browserTimeout after
\* it was armed: reject, nothing else
Timeout(c) ==
  /\ TimerPending(c)
  /\ pc' = [pc EXCEPT ![c] = "done"]
  /\ last' = GetBrowserFailed("timeout")
  /\ UNCHANGED <<browsers, activeBrowsers, queue, isShuttingDown, nextBrowser,
                 nextCall, initPc, initI, shutPc, hcList, held, how, lostActive,
                 decs,
                 schedVars, restVars>>

\* executeWithBrowser lines 167 and 173: the operation's result is returned
\* and its error rethrown as they are
Reported(r) == r

\* the operation of call c ends with r ("ok": returned, "err": threw); the
\* finally block of executeWithBrowser runs releaseBrowser in the same turn,
\* and releaseBrowser resolves the queued call it shifts
OpFinish(c, r) ==
  LET b        == held[c]
      i        == IndexOf(browsers, b)
      rel      == FinallyReleases(b, r = "err")
      doRel    == rel /\ i # 0
      handover == doRel /\ Len(queue) > 0
      k        == DequeueIndex(queue)
      w        == queue[k]
      resolved == handover /\ pc[w] = "waiting"
  IN
  /\ pc[c] = "running"
  /\ browsers' = IF doRel
                   THEN [browsers EXCEPT ![i].isActive = FALSE, ![i].stale = FALSE]
                   ELSE browsers
  /\ activeBrowsers' = IF doRel THEN activeBrowsers - 1 ELSE activeBrowsers
  /\ queue' = IF handover THEN Splice(queue, k) ELSE queue
  /\ pc' = [x \in Calls |-> IF x = c THEN "done"
                            ELSE IF resolved /\ x = w THEN "running" ELSE pc[x]]
  /\ held' = [x \in Calls |-> IF x = c THEN NoBrowser
                              ELSE IF resolved /\ x = w THEN b ELSE held[x]]
  /\ how' = [x \in Calls |-> IF x = c THEN "none"
                             ELSE IF resolved /\ x = w THEN "queue" ELSE how[x]]
  /\ lostActive' = [lostActive EXCEPT ![c] = FALSE]
  /\ decs' = [decs EXCEPT ![c] = 0]
  /\ last' = Ended(how[c], r, Reported(r), IF rel THEN 1 ELSE 0, lostActive[c],
                   decs[c] + (IF doRel THEN 1 ELSE 0))
  /\ UNCHANGED <<isShuttingDown, nextBrowser, nextCall, initPc, initI, shutPc, hcList,
                 schedVars, restVars>>

\* removeBrowser(b) on the pool and on what is recorded for b's holders
Removed(b) ==
  LET i == IndexOf(browsers, b) IN
  /\ browsers' = RemoveBrowser(browsers, b)
  /\ activeBrowsers' = IF i # 0 /\ BrowserHandleIsActive(b) THEN activeBrowsers - 1
                                                            ELSE activeBrowsers
  /\ lostActive' = [c \in Calls |->
                      lostActive[c]
                        \/ (i # 0 /\ pc[c] = "running" /\ held[c] = b /\ browsers[i].isActive)]
  /\ decs' = [c \in Calls |->
                IF i # 0 /\ pc[c] = "running" /\ held[c] = b /\ BrowserHandleIsActive(b)
                  THEN decs[c] + 1 ELSE decs[c]]

\* a pooled browser emits 'disconnected' (it crashed, or a close() went
\* through): the listener set in createBrowser runs removeBrowser
Disconnect(b) ==
  /\ b \in BrowserIds
  /\ Removed(b)
  /\ UNCHANGED <<queue, isShuttingDown, nextBrowser, nextCall, initPc, initI, shutPc,
                 hcList, pc, held, how, last,
                 schedVars, restVars>>

\* shutdown(): sets the flag and enters cleanup(), which starts close() on
\* every browser and suspends on Promise.all
ShutdownStart ==
  /\ shutPc = "idle"
  /\ isShuttingDown' = TRUE
  /\ shutPc' = "closing"
  /\ UNCHANGED <<browsers, activeBrowsers, queue, nextBrowser, nextCall, initPc,
                 initI, hcList, pc, held, how, lostActive, decs, last,
                 schedVars, restVars>>

\* the queued calls whose promise is still pending, oldest first
PendingInQueue == SelectSeq(queue, LAMBDA c : pc[c] = "waiting")

\* cleanup() after Promise.all: the pool is emptied and every queued call is
\* rejected
ShutdownFinish ==
  /\ shutPc = "closing"
  /\ shutPc' = "done"
  /\ browsers' = <<>>
  /\ activeBrowsers' = 0
  /\ queue' = <<>>
  /\ pc' = [c \in Calls |-> IF pc[c] = "waiting" THEN "done" ELSE pc[c]]
  /\ last' = IF PendingInQueue # <<>> THEN GetBrowserFailed("shutdown") ELSE last
  /\ UNCHANGED <<isShuttingDown, nextBrowser, nextCall, initPc, initI, hcList, held,
                 how, lostActive, decs,
                 schedVars, restVars>>

\* healthCheck() up to its first await: the idle browsers are listed and
\* close() is started on the first
HealthCheckStart ==
  /\ hcList = <<>>
  /\ IdleBrowsers(browsers) # <<>>
  /\ hcList' = IdleBrowsers(browsers)
  /\ UNCHANGED <<browsers, activeBrowsers, queue, isShuttingDown, nextBrowser,
                 nextCall, initPc, initI, shutPc, pc, held, how, lostActive,
                 decs, last,
                 schedVars, restVars>>

\* healthCheck(): close() of the listed browser resolved, removeBrowser runs
\* and the loop moves on
HealthCheckClosed ==
  /\ hcList # <<>>
  /\ Removed(Head(hcList))
  /\ hcList' = Tail(hcList)
  /\ UNCHANGED <<queue, isShuttingDown, nextBrowser, nextCall, initPc, initI, shutPc,
                 pc, held, how, last,
                 schedVars, restVars>>

\* healthCheck(): close() rejected, the catch logs and the loop moves on
HealthCheckCloseFailed ==
  /\ hcList # <<>>
  /\ hcList' = Tail(hcList)
  /\ UNCHANGED <<browsers, activeBrowsers, queue, isShuttingDown, nextBrowser,
                 nextCall, initPc, initI, shutPc, pc, held, how, lostActive,
                 decs, last,
                 schedVars, restVars>>

\* time passes: the entry of browser b has now been unused for longer than
\* idleTimeout (every write of lastUsed = Date.now() starts the wait again)
IdleTimeoutElapses(b) ==
  LET i == IndexOf(browsers, b) IN
  /\ i # 0
  /\ ~browsers[i].stale
  /\ browsers' = [browsers EXCEPT ![i].stale = TRUE]
  /\ UNCHANGED <<activeBrowsers, queue, isShuttingDown, nextBrowser, nextCall,
                 initPc, initI, shutPc, hcList, pc, held, how, lostActive, decs, last,
                 schedVars, restVars>>

Next ==
  \/ InitializeStart
  \/ InitializeLaunched
  \/ InitializeFailed
  \/ \E c \in Calls : GetBrowser(c)
  \/ \E c \in Calls : LaunchDone(c)
  \/ \E c \in Calls : LaunchFail(c)
  \/ \E c \in Calls : Timeout(c)
  \/ \E c \in Calls, r \in {"ok", "err"} : OpFinish(c, r)
  \/ \E b \in BrowserIds : Disconnect(b)
  \/ ShutdownStart
  \/ ShutdownFinish
  \/ HealthCheckStart
  \/ HealthCheckClosed
  \/ HealthCheckCloseFailed
  \/ \E b \in BrowserIds : IdleTimeoutElapses(b)

Spec == Init /\ [][Next]_vars

\* ------------------------------------------------------- BrowserPool claims

\* C1: with maxBrowsers = M, the activeBrowsers counter is at most M in every
\* reachable state.
C1_ActiveWithinMax == activeBrowsers <= MaxBrowsers

\* C2: this.browsers never holds more than maxBrowsers entries, and a browser
\* is added only when the total is below maxBrowsers at that moment.
C2_PoolBounded ==
  /\ [](Len(browsers) <= MaxBrowsers)
  /\ [][Len(browsers') > Len(browsers) => Len(browsers) < MaxBrowsers]_vars

\* C3: waiters are served first in, first out: whenever a call that was
\* resolved from the queue holds its browser, no call that enqueued before it
\* (calls start, and so enqueue, in the order of their numbers) is still
\* waiting.
C3_FifoOrder ==
  \A w1, w2 \in Calls : (w1 < w2 /\ how[w2] = "queue") => pc[w1] # "waiting"

\* two waiters were served one after the other while the pool was saturated
C3_Witness == how[MaxCalls] = "queue" /\ last.how = "queue"

\* C4: a queued getBrowser call that timed out is no longer in the wait queue,
\* so every entry of the queue belongs to a call that is still pending.
C4_TimedOutEntryRemoved == \A i \in 1..Len(queue) : pc[queue[i]] = "waiting"

\* C5: a release while the queue is non-empty leaves the browser active and the
\* active count as it was; only a release on an empty queue marks the browser
\* idle and stamps lastUsed.
C5_HandOverSkipsIdle ==
  [][\A c \in Calls :
       (pc[c] = "running" /\ pc'[c] = "done" /\ held[c] \in BrowserIds) =>
         LET after == browsers'[IndexOf(browsers', held[c])] IN
         IF Len(queue) > 0
           THEN after.isActive /\ activeBrowsers' = activeBrowsers
           ELSE ~after.isActive /\ ~after.stale]_vars

\* C6: executeWithBrowser calls releaseBrowser exactly once when it acquired a
\* browser, whether the operation returned or threw, and not at all when
\* getBrowser failed; what it reports is the operation's own result or error.
C6_ReleaseExactlyOnce ==
  /\ last.how # "none" => (last.relCount = 1 /\ last.outcome = last.opResult)
  /\ last.how = "none" => (last.relCount = 0 /\ last.outcome \notin {"ok", "err"})

\* C6, its case: a call that got a browser and whose operation threw has ended
C6_Witness == last.how # "none" /\ last.opResult = "err" /\ last.relCount = 1

\* C7: a browser that disconnects while active costs the active count exactly
\* one decrement, counting the disconnect handler and the holder's later
\* releaseBrowser.
C7_DisconnectDecrementsOnce ==
  /\ \A c \in Calls : lostActive[c] => decs[c] <= 1
  /\ last.lost => last.decs = 1

\* C8: once shutdown() was called no queued getBrowser call is resolved with a
\* browser, every getBrowser call made afterwards fails, and when cleanup
\* completes the queue and the pool are empty.
C8_ShutdownRejectsWaiters ==
  [][isShuttingDown =>
       /\ \A c \in Calls : pc[c] = "waiting" => pc'[c] \in {"waiting", "done"}
       /\ \A c \in Calls : (pc[c] = "new" /\ pc'[c] # "new") => pc'[c] = "done"
       /\ (shutPc = "closing" /\ shutPc' = "done") =>
            (queue' = <<>> /\ browsers' = <<>>)]_vars

\* the pool when browser launches terminate and armed timers fire
LiveSpec ==
  /\ Spec
  /\ \A c \in Calls : WF_vars(LaunchDone(c) \/ LaunchFail(c))
  /\ \A c \in Calls : WF_vars(Timeout(c))

\* a getBrowser call that is suspended: on puppeteer.launch or in the queue
Suspended(c) == pc[c] \in {"launching", "waiting"}

\* C25: every getBrowser call that is suspended eventually returns a browser
\* or fails; no call stays suspended forever.
C25_GetBrowserCompletes ==
  \A c \in Calls : Suspended(c) ~> ~Suspended(c)

\* C25, its case: a queued call has failed with the shutdown error while
\* another call still holds a browser
C25_Witness ==
  /\ last.outcome = "shutdown"
  /\ \E c \in Calls : pc[c] = "running"

\* the calls that hold browser b: getBrowser gave it to them and they have
\* not released it yet
Holders(b) == {c \in Calls : pc[c] = "running" /\ held[c] = b}

\* C21: a step of healthCheck's reaping loop never removes from the pool a
\* browser that a caller holds, also when the caller acquired it while the
\* reaper was waiting for close() to finish.
C21_ReapsOnlyIdle ==
  [][hcList' # hcList =>
       \A c \in Calls :
         (pc[c] = "running" /\ held[c] \in BrowserIds) =>
           \E i \in 1..Len(browsers') : browsers'[i].id = held[c]]_vars

\* C22: in the state a releaseBrowser call leaves behind, the wait queue holds
\* no getBrowser call that is still pending while a pooled browser is held by
\* nobody.
C22_NoIdleWhileWaiting ==
  [][(\E c \in Calls : pc[c] = "running" /\ pc'[c] = "done") =>
       ~ /\ \E i \in 1..Len(queue') : pc'[queue'[i]] = "waiting"
         /\ \E j \in 1..Len(browsers') :
              /\ ~browsers'[j].isActive
              /\ \A c \in Calls : ~(pc'[c] = "running" /\ held'[c] = browsers'[j].id)]_vars

\* C26: no pooled browser is held by two callers at the same time.
C26_ExclusiveUse ==
  \A b \in BrowserIds : Cardinality(Holders(b)) <= 1

\* C27: activeBrowsers equals the number of entries of this.browsers whose
\* isActive flag is true, and is never negative.
C27_CounterMatchesFlags ==
  /\ activeBrowsers = Cardinality({i \in 1..Len(browsers) : browsers[i].isActive})
  /\ activeBrowsers >= 0

\* ---------------------------------------------------- Scheduler actions
\* (src/src/scheduler.js)

\* runMultiCityDataCollection() up to its await of Promise.allSettled: it calls
\* runMultiCityPermitsCollection() and runJobsCollection() in the same turn.
\* Each of the two either returns 0 at once (its flag is set) or sets its flag
\* and starts its body. With both skipped the total is 0 and nothing follows.
RunMultiCityDataCollection ==
  LET pSkip == PermitsCollectionGuard(isRunning)
      jSkip == JobsCollectionGuard(isRunning)
  IN
  /\ scheduler = "Scheduler"
  /\ ~(pSkip /\ jSkip) => FreeCollections # {}
  /\ isRunning' = [isRunning EXCEPT !.multiCityPermits = IF pSkip THEN @ ELSE TRUE,
                                    !.jobs = IF jSkip THEN @ ELSE TRUE]
  /\ multi' = IF pSkip /\ jSkip
                THEN multi
                ELSE [multi EXCEPT ![Lowest(FreeCollections)] =
                        [permits |-> IF pSkip THEN "zero" ELSE "pending",
                         jobs |-> IF jSkip THEN "zero" ELSE "pending"]]
  /\ ev' = {Invocation("Scheduler", "runMultiCityPermitsCollection", isRunning.multiCityPermits,
                       ~pSkip, "collection"),
            Invocation("Scheduler", "runJobsCollection", isRunning.jobs, ~jSkip, "collection")}
  /\ chain' = IF pSkip /\ jSkip
                THEN Completion("Scheduler", "runMultiCityDataCollection", "zero")
                ELSE NoChain
  /\ UNCHANGED <<dataColl, analysis, timers, optRunning, runners, stats, optTimers,
                 poolVars, scheduler, restVars>>

\* what runMultiCityDataCollection does once both promises are settled:
\* totalItems > 0 arms the timer for runAnalysis
Settled(m, parts) ==
  IF "pending" \in {parts.permits, parts.jobs}
    THEN /\ multi' = [multi EXCEPT ![m] = parts]
         /\ chain' = NoChain
         /\ UNCHANGED timers
    ELSE /\ multi' = [multi EXCEPT ![m] = NoCollection]
         /\ chain' = Completion("Scheduler", "runMultiCityDataCollection", totalItems(parts))
         /\ IF NewData(totalItems(parts))
              THEN timers < MaxTimers /\ timers' = timers + 1
              ELSE UNCHANGED timers

\* the body of runMultiCityPermitsCollection ends: it returns permits.length
\* (zero or more) or rethrows; finally clears the flag
PermitsCollectionEnd(m, res) ==
  /\ scheduler = "Scheduler"
  /\ multi[m].permits = "pending"
  /\ isRunning' = [isRunning EXCEPT !.multiCityPermits = FALSE]
  /\ Settled(m, [multi[m] EXCEPT !.permits = res])
  /\ ev' = {}
  /\ UNCHANGED <<dataColl, analysis, optRunning, runners, stats, optTimers, poolVars, scheduler, restVars>>

\* the body of runJobsCollection ends
JobsCollectionEnd(m, res) ==
  /\ scheduler = "Scheduler"
  /\ multi[m].jobs = "pending"
  /\ isRunning' = [isRunning EXCEPT !.jobs = FALSE]
  /\ Settled(m, [multi[m] EXCEPT !.jobs = res])
  /\ ev' = {}
  /\ UNCHANGED <<dataColl, analysis, optRunning, runners, stats, optTimers, poolVars, scheduler, restVars>>

\* runDataCollection() up to its await
RunDataCollection ==
  LET skip == DataCollectionGuard(isRunning) IN
  /\ scheduler = "Scheduler"
  /\ ~skip => FreeDataSlots # {}
  /\ isRunning' = IF skip THEN isRunning
                  ELSE [isRunning EXCEPT !.permits = TRUE, !.jobs = TRUE]
  /\ dataColl' = IF skip THEN dataColl
                 ELSE [dataColl EXCEPT ![Lowest(FreeDataSlots)] = "running"]
  /\ ev' = {Invocation("Scheduler", "runDataCollection", isRunning.permits \/ isRunning.jobs,
                       ~skip, "call")}
  /\ chain' = IF skip THEN Completion("Scheduler", "runDataCollection", "skipped") ELSE NoChain
  /\ UNCHANGED <<multi, analysis, timers, optRunning, runners, stats, optTimers,
                 poolVars, scheduler, restVars>>

\* runDataCollection() after its await: results arm the timer for runAnalysis,
\* an error is logged, and finally clears both flags
DataCollectionEnd(s, res) ==
  /\ scheduler = "Scheduler"
  /\ dataColl[s] = "running"
  /\ dataColl' = [dataColl EXCEPT ![s] = "free"]
  /\ IF NewData(res) THEN timers < MaxTimers /\ timers' = timers + 1
                     ELSE UNCHANGED timers
  /\ isRunning' = [isRunning EXCEPT !.permits = FALSE, !.jobs = FALSE]
  /\ ev' = {}
  /\ chain' = Completion("Scheduler", "runDataCollection", res)
  /\ UNCHANGED <<multi, analysis, optRunning, runners, stats, optTimers, poolVars, scheduler, restVars>>

\* a runAnalysis that would set its flag only after its first await
AnalysisFlagAfterAwait(f) == f

\* try { this.isRunning.analysis = true; ... await
AnalysisFlagBeforeAwait(f) == [f EXCEPT !.analysis = TRUE]

\* runAnalysis() up to its await
runAnalysis(via) ==
  LET skip == AnalysisGuard(isRunning) IN
  /\ scheduler = "Scheduler"
  /\ ~skip => FreeAnalysisSlots # {}
  /\ isRunning' = IF skip THEN isRunning ELSE AnalysisFlagBeforeAwait(isRunning)
  /\ analysis' = IF skip THEN analysis
                 ELSE [analysis EXCEPT ![Lowest(FreeAnalysisSlots)] = "running"]
  /\ ev' = {Invocation("Scheduler", "runAnalysis", isRunning.analysis, ~skip, via)}
  /\ chain' = IF skip THEN Completion("Scheduler", "runAnalysis", "skipped") ELSE NoChain
  /\ UNCHANGED <<multi, dataColl, optRunning, runners, stats, optTimers, poolVars, scheduler, restVars>>

\* the four-hourly cron tick
CronAnalysis ==
  /\ runAnalysis("cron")
  /\ UNCHANGED timers

\* a chained timer fires
ChainedAnalysis ==
  /\ timers > 0
  /\ timers' = timers - 1
  /\ runAnalysis("timer")

\* a runAnalysis without its finally block
AnalysisFlagLeftSet(f) == f

\* finally { this.isRunning.analysis = false }
AnalysisFlagCleared(f) == [f EXCEPT !.analysis = FALSE]

\* runAnalysis() after its await: an error is logged; finally clears the flag
AnalysisEnd(s) ==
  /\ scheduler = "Scheduler"
  /\ analysis[s] = "running"
  /\ analysis' = [analysis EXCEPT ![s] = "free"]
  /\ isRunning' = AnalysisFlagCleared(isRunning)
  /\ ev' = {}
  /\ chain' = Completion("Scheduler", "runAnalysis", "done")
  /\ UNCHANGED <<multi, dataColl, timers, optRunning, runners, stats, optTimers,
                 poolVars, scheduler, restVars>>

\* (src/unnamed/part_003)

\* the flags an OptimizedScheduler task tests before it runs
OptGuard(job) ==
  CASE job = "data" -> DataCollectionGuard(optRunning)
    [] job = "analysis" -> AnalysisGuard(optRunning)
    [] OTHER -> FALSE

OptFlagSet(job) ==
  CASE job = "data" -> optRunning.permits \/ optRunning.jobs
    [] job = "analysis" -> optRunning.analysis
    [] OTHER -> FALSE

\* the value a task's flags are given when its body starts and when it ends
OptFlags(job, v) ==
  CASE job = "data" -> [optRunning EXCEPT !.permits = v, !.jobs = v]
    [] job = "analysis" -> [optRunning EXCEPT !.analysis = v]
    [] OTHER -> optRunning

TaskName(job) ==
  CASE job = "data" -> "runDataCollection"
    [] job = "analysis" -> "runAnalysis"
    [] OTHER -> "sendDailyReport"

\* one pass of the loop of executeWithRetry up to the await of operation():
\* attempt n of runner r calls runDataCollection, runAnalysis or
\* sendDailyReport. A skipped task returns its empty result, which
\* executeWithRetry takes for a success: updateStats(true, duration), return.
Operation(r, job, n, via) ==
  LET skip == OptGuard(job) IN
  /\ ev' = IF job = "report" THEN {}
           ELSE {Invocation("OptimizedScheduler", TaskName(job), OptFlagSet(job), ~skip, via)}
  /\ chain' = IF skip THEN Completion("OptimizedScheduler", TaskName(job), "skipped")
                       ELSE NoChain
  /\ IF skip
       THEN /\ \E d \in Durations : stats' = updateStats(stats, TRUE, d)
            /\ runners' = [runners EXCEPT ![r] = NoRunner]
            /\ UNCHANGED optRunning
       ELSE /\ optRunning' = OptFlags(job, TRUE)
            /\ runners' = [runners EXCEPT ![r] = [job |-> job, pc |-> "body",
                                                  attempt |-> n]]
            /\ UNCHANGED stats

\* executeWithRetry(jobType, operation) from its call to the first await
executeWithRetry(job, via) ==
  /\ scheduler = "OptimizedScheduler"
  /\ FreeRunners # {}
  /\ stats.totalJobs + (MaxOverlap - Cardinality(FreeRunners)) < MaxJobs
  /\ Operation(Lowest(FreeRunners), job, 1, via)
  /\ UNCHANGED <<isRunning, multi, dataColl, analysis, timers, poolVars, scheduler, restVars>>

\* the two-hourly cron tick and the timer set by start()
runDataCollectionWithRetry ==
  /\ executeWithRetry("data", "cron")
  /\ UNCHANGED optTimers

\* the four-hourly cron tick
runAnalysisWithRetry ==
  /\ executeWithRetry("analysis", "cron")
  /\ UNCHANGED optTimers

\* the timer set by runDataCollection fires
ChainedAnalysisWithRetry ==
  /\ optTimers > 0
  /\ optTimers' = optTimers - 1
  /\ executeWithRetry("analysis", "timer")

\* the daily cron tick
sendDailyReportWithRetry ==
  /\ executeWithRetry("report", "cron")
  /\ UNCHANGED optTimers

\* the task awaited by runner r ends. runDataCollection arms the timer for
\* runAnalysisWithRetry when it has results; finally clears the task's flags.
\* executeWithRetry then records a success, or sleeps before the next attempt,
\* or, after the last attempt, records a failure and rethrows.
OperationSettles(r, res) ==
  LET job == runners[r].job
      n == runners[r].attempt
  IN
  /\ scheduler = "OptimizedScheduler"
  /\ runners[r].pc = "body"
  /\ job # "data" => res # "empty"
  /\ IF job = "data" /\ NewData(res)
       THEN optTimers < MaxTimers /\ optTimers' = optTimers + 1
       ELSE UNCHANGED optTimers
  /\ chain' = Completion("OptimizedScheduler", TaskName(job),
                         IF job = "data" \/ res = "throw" THEN res ELSE "done")
  /\ optRunning' = OptFlags(job, FALSE)
  /\ IF res # "throw"
       THEN /\ \E d \in Durations : stats' = updateStats(stats, TRUE, d)
            /\ runners' = [runners EXCEPT ![r] = NoRunner]
       ELSE IF n < maxRetries
         THEN /\ runners' = [runners EXCEPT ![r].pc = "sleeping"]
              /\ UNCHANGED stats
         ELSE /\ \E d \in Durations : stats' = updateStats(stats, FALSE, d)
              /\ runners' = [runners EXCEPT ![r] = NoRunner]
  /\ ev' = {}

OperationEnd(r, res) ==
  /\ OperationSettles(r, res)
  /\ UNCHANGED <<isRunning, multi, dataColl, analysis, timers, poolVars, scheduler, restVars>>

\* sleep(retryDelay * attempt) is over: the loop makes its next attempt
RetryAfterSleep(r) ==
  /\ scheduler = "OptimizedScheduler"
  /\ runners[r].pc = "sleeping"
  /\ Operation(r, runners[r].job, runners[r].attempt + 1, "retry")
  /\ UNCHANGED <<optTimers, isRunning, multi, dataColl, analysis, timers, poolVars, scheduler, restVars>>

Results == {"some", "empty", "throw"}

SchedNext ==
  \/ RunMultiCityDataCollection
  \/ \E m \in Slots, res \in {"zero", "some", "rejected"} : PermitsCollectionEnd(m, res)
  \/ \E m \in Slots, res \in {"zero", "some", "rejected"} : JobsCollectionEnd(m, res)
  \/ RunDataCollection
  \/ \E s \in Slots, res \in {"some", "empty", "error"} : DataCollectionEnd(s, res)
  \/ CronAnalysis
  \/ ChainedAnalysis
  \/ \E s \in Slots : AnalysisEnd(s)
  \/ runDataCollectionWithRetry
  \/ runAnalysisWithRetry
  \/ ChainedAnalysisWithRetry
  \/ sendDailyReportWithRetry
  \/ \E r \in Slots, res \in Results : OperationEnd(r, res)
  \/ \E r \in Slots : RetryAfterSleep(r)

SchedSpec == SchedulerInit /\ [][SchedNext]_vars

\* --------------------------------------------------------- Scheduler claims

InBody ==
  [runMultiCityPermitsCollection |-> Cardinality({m \in Slots : multi[m].permits = "pending"}),
   runJobsCollection |-> Cardinality({m \in Slots : multi[m].jobs = "pending"}),
   runDataCollection |-> Cardinality({s \in Slots : dataColl[s] = "running"}),
   runAnalysis |-> Cardinality({s \in Slots : analysis[s] = "running"}),
   optRunDataCollection |->
     Cardinality({r \in Slots : runners[r].job = "data" /\ runners[r].pc = "body"}),
   optRunAnalysis |->
     Cardinality({r \in Slots : runners[r].job = "analysis" /\ runners[r].pc = "body"})]

\* C9: an invocation of a guarded task made while the task's running flag is
\* set does not invoke the body (it returns the skipped result), and at most
\* one execution of each task's body is in progress at any time.
C9_SingleFlight ==
  /\ \A e \in ev : e.flagSet => ~e.started
  /\ \A t \in DOMAIN InBody : InBody[t] <= 1

\* C9, its case: runAnalysis is invoked while its body is in progress, and is
\* skipped
C9_Witness ==
  \E e \in ev : /\ e.task = "runAnalysis" /\ e.flagSet /\ ~e.started
                /\ IF e.class = "Scheduler" THEN InBody.runAnalysis = 1
                                           ELSE InBody.optRunAnalysis = 1

\* the chained timers of class c that fired to make the invocations of step e
Fired(e, c) == Cardinality({i \in e : i.class = c /\ i.via = "timer"})

\* C10: a step whose invocations are all skipped changes no running flag, no
\* job statistic and no pending chained timer (the timer that fired to make
\* the invocation is no longer pending), also when the invocation comes
\* through runDataCollectionWithRetry or runAnalysisWithRetry.
C10_SkipHasNoEffect ==
  [][(ev' # {} /\ \A e \in ev' : e.flagSet /\ ~e.started) =>
       /\ isRunning' = isRunning
       /\ optRunning' = optRunning
       /\ stats' = stats
       /\ timers' = timers - Fired(ev', "Scheduler")
       /\ optTimers' = optTimers - Fired(ev', "OptimizedScheduler")]_vars

\* C12: from the first attempt of a retried guarded task until executeWithRetry
\* returns or throws, the task's running flag stays set, the backoff sleep
\* between two attempts included.
C12_RetriesInsideRunningSpan ==
  \A r \in Slots :
    (runners[r].job \in {"data", "analysis"} /\ runners[r].pc \in {"body", "sleeping"})
      => OptFlagSet(runners[r].job)

\* the running flag of the task of invocation e, as it is now
FlagNow(e) ==
  IF e.class = "Scheduler"
    THEN CASE e.task = "runMultiCityPermitsCollection" -> isRunning.multiCityPermits
           [] e.task = "runJobsCollection" -> isRunning.jobs
           [] e.task = "runDataCollection" -> isRunning.permits /\ isRunning.jobs
           [] OTHER -> isRunning.analysis
    ELSE CASE e.task = "runDataCollection" -> optRunning.permits /\ optRunning.jobs
           [] OTHER -> optRunning.analysis

\* the bodies of the task of invocation e that are in progress
BodiesOf(e) ==
  IF e.class = "Scheduler"
    THEN InBody[e.task]
    ELSE IF e.task = "runDataCollection" THEN InBody.optRunDataCollection
                                         ELSE InBody.optRunAnalysis

\* C23: an invocation that passes the guard has set the task's running flag
\* by the end of the same turn, before its first await, so the body it starts
\* is the only one of that task in progress.
C23_FlagSetInGuardTurn ==
  \A e \in ev : e.started => (~e.flagSet /\ FlagNow(e) /\ BodiesOf(e) = 1)

\* C23, its case: an analysis passed the guard and set the flag while another
\* invocation of the analysis is between two attempts
C23_Witness ==
  /\ \E e \in ev : e.task = "runAnalysis" /\ e.started /\ FlagNow(e)
  /\ \E r \in Slots : runners[r].job = "analysis" /\ runners[r].pc = "sleeping"

\* the guarded tasks, as InBody names them
Tasks == DOMAIN InBody

\* the flags that task t sets and clears, as pairs of scheduler class and
\* field of this.isRunning
FlagsOf(t) ==
  CASE t = "runMultiCityPermitsCollection" -> {<<"Scheduler", "multiCityPermits">>}
    [] t = "runJobsCollection" -> {<<"Scheduler", "jobs">>}
    [] t = "runDataCollection" -> {<<"Scheduler", "permits">>, <<"Scheduler", "jobs">>}
    [] t = "runAnalysis" -> {<<"Scheduler", "analysis">>}
    [] t = "optRunDataCollection" -> {<<"OptimizedScheduler", "permits">>,
                                      <<"OptimizedScheduler", "jobs">>}
    [] OTHER -> {<<"OptimizedScheduler", "analysis">>}

\* all the flags of the guarded tasks
Flags == UNION {FlagsOf(t) : t \in Tasks}

\* the value of flag f when this.isRunning is leg in a Scheduler and opt in an
\* OptimizedScheduler
FlagValue(f, leg, opt) == IF f[1] = "Scheduler" THEN leg[f[2]] ELSE opt[f[2]]

\* C24: when a body of a guarded task terminates, by returning or throwing,
\* the flags the task had set are false afterwards, and a flag goes from set
\* to cleared only in a step in which a body of a task that sets it
\* terminates, never in a skipped invocation.
C24_GuardAlwaysCleared ==
  [][/\ \A t \in Tasks :
          InBody'[t] < InBody[t] =>
            \A f \in FlagsOf(t) :
              FlagValue(f, isRunning, optRunning) /\ ~FlagValue(f, isRunning', optRunning')
     /\ \A f \in Flags :
          (FlagValue(f, isRunning, optRunning) /\ ~FlagValue(f, isRunning', optRunning')) =>
            \E t \in Tasks : f \in FlagsOf(t) /\ InBody'[t] < InBody[t]]_vars

\* C24, its case: the body of runDataCollection has thrown and its flags are
\* cleared
C24_Witness ==
  /\ chain = Completion("OptimizedScheduler", "runDataCollection", "throw")
  /\ ~optRunning.permits
  /\ ~optRunning.jobs

\* the runs that collect data
DataCollections == {"runMultiCityDataCollection", "runDataCollection"}

\* the timers for the analysis task armed by the step that made the
\* invocations e: the change in pending timers, the fired ones put back
Armed(before, after, e) ==
  after - before + Fired(e, "Scheduler") + Fired(e, "OptimizedScheduler")

\* C20: a step arms one timer for the analysis task if it ends a data
\* collection that produced items, and no timer otherwise: not when the data
\* collection is skipped, empty or failed, and not when an analysis ends.
C20_Chaining ==
  [][Armed(timers + optTimers, timers' + optTimers', ev') =
       IF chain'.task \in DataCollections /\ chain'.items = "some" THEN 1 ELSE 0]_vars

\* C20, its case: a data collection has ended with items and its timer is
\* pending
C20_Witness ==
  /\ chain.task \in DataCollections
  /\ chain.items = "some"
  /\ timers + optTimers = 1

\* --------------------------------------------------------- manual triggers
\* (src/src/scheduler.js 329-348, src/unnamed/part_003 446-470; server.js
\* calls them from POST /manual/scrape-permits, /manual/monitor-jobs and
\* /manual/analyze)

\* how many executions of one trigger are followed at once
MaxManual == 2

\* a trigger is called: it tests no flag and starts its body at once
Trigger(kind) ==
  /\ manual[kind] < MaxManual
  /\ manual' = [manual EXCEPT ![kind] = @ + 1]

\* return await this.permitsScraper.scrape()
triggerPermitsScrape ==
  /\ Trigger("permits")
  /\ UNCHANGED <<poolVars, schedVars, retryVars, cacheVars, timeoutVars>>

\* return await this.jobMonitor.monitorJobs()
triggerJobMonitor ==
  /\ Trigger("jobs")
  /\ UNCHANGED <<poolVars, schedVars, retryVars, cacheVars, timeoutVars>>

\* const predictions = await this.aiPredictor.analyzeAndPredict()
triggerAnalysis ==
  /\ Trigger("analysis")
  /\ UNCHANGED <<poolVars, schedVars, retryVars, cacheVars, timeoutVars>>

\* the body awaited by a trigger settles and the trigger returns or rethrows
TriggerEnd(kind) ==
  /\ manual[kind] > 0
  /\ manual' = [manual EXCEPT ![kind] = @ - 1]
  /\ UNCHANGED <<poolVars, schedVars, retryVars, cacheVars, timeoutVars>>

TriggerNext ==
  \/ SchedNext
  \/ triggerPermitsScrape
  \/ triggerJobMonitor
  \/ triggerAnalysis
  \/ \E kind \in {"permits", "jobs", "analysis"} : TriggerEnd(kind)

TriggerSpec == SchedulerInit /\ [][TriggerNext]_vars

\* executions in progress of aiPredictor.analyzeAndPredict, of
\* jobMonitor.monitorJobs awaited by runJobsCollection or a trigger, and of
\* permitsScraper.scrape awaited by a trigger
Bodies ==
  [analysis |-> InBody.runAnalysis + InBody.optRunAnalysis + manual.analysis,
   jobs |-> InBody.runJobsCollection + manual.jobs,
   permits |-> manual.permits]

\* C13: whatever the entry point (cron tick, chained timer, manual trigger),
\* at most one execution of the analysis body is in progress at any moment,
\* and likewise for the permits scrape and the job monitor.
C13_OneBodyAcrossEntryPoints ==
  /\ Bodies.analysis <= 1
  /\ Bodies.jobs <= 1
  /\ Bodies.permits <= 1

\* ------------------------------------------------------------ retry loops
\* OptimizedScheduler.executeWithRetry (src/unnamed/part_003) and
\* JobMonitor.searchCompanyJobsWithRetry (src/src/scrapers/job-monitor.js),
\* each called with an operation that may fail any number of times

\* the largest value of the parameter retries that is tried
MaxAttempts == 3

\* JobMonitor: this.maxRetries
JobMonitorMaxRetries == 2

\* the errors an operation may throw
Errors == {"e1", "e2"}

Loops == {"executeWithRetry", "searchCompanyJobsWithRetry"}

\* a loop test that stops one attempt early
LoopStopsEarly(attempt, limit) == attempt < limit

\* for (let attempt = 1; attempt <= retries; attempt++)
LoopCondition(attempt, limit) == attempt <= limit

\* executeWithRetry: if (attempt < retries) await this.sleep(...)
\* searchCompanyJobsWithRetry: if (attempt === this.maxRetries) throw error
SleepsBeforeRetry(loop, attempt, limit) ==
  IF loop = "executeWithRetry" THEN attempt < limit ELSE attempt # limit

\* executeWithRetry: let lastError = null; ... lastError = error
lastError(errors) == IF errors = <<>> THEN "null" ELSE errors[Len(errors)]

Value(k) == [kind |-> "value", value |-> k, error |-> "none"]

Thrown(e) == [kind |-> "error", value |-> 0, error |-> e]

\* attempt++ and the loop test: the operation is invoked once more, or the
\* loop is left. After the loop executeWithRetry throws lastError and
\* searchCompanyJobsWithRetry returns undefined.
Iterate(r) ==
  LET a == r.attempt + 1 IN
  IF LoopCondition(a, r.limit)
    THEN [r EXCEPT !.attempt = a, !.pc = "calling", !.calls = @ + 1]
    ELSE IF r.loop = "executeWithRetry"
      THEN [r EXCEPT !.attempt = a, !.pc = "thrown", !.result = Thrown(lastError(r.errors))]
      ELSE [r EXCEPT !.attempt = a, !.pc = "returned",
                     !.result = [kind |-> "undefined", value |-> 0, error |-> "none"]]

\* executeWithRetry calls updateStats when it returns and before it throws
RetryStats(r) ==
  IF r.loop = "executeWithRetry" /\ r.pc \in {"returned", "thrown"}
    THEN \E d \in Durations : stats' = updateStats(stats, r.pc = "returned", d)
    ELSE UNCHANGED stats

RetryFrame ==
  UNCHANGED <<poolVars, scheduler, isRunning, multi, dataColl, analysis, timers,
              optRunning, runners, optTimers, ev, chain, triggerVars, cacheVars,
              timeoutVars>>

\* a retry loop is called and runs up to its first await
RetryCall(loop, limit) ==
  /\ retry.pc \in {"idle", "returned", "thrown"}
  /\ loop = "executeWithRetry" => stats.totalJobs < MaxJobs
  /\ loop = "searchCompanyJobsWithRetry" => limit = JobMonitorMaxRetries
  /\ retry' = Iterate([NoRetry EXCEPT !.loop = loop, !.limit = limit])
  /\ RetryStats(retry')
  /\ RetryFrame

\* the awaited operation resolves: the loop returns its value
RetryOperationResolves ==
  /\ retry.pc = "calling"
  /\ retry' = [retry EXCEPT !.pc = "returned", !.result = Value(retry.calls)]
  /\ RetryStats(retry')
  /\ RetryFrame

\* the awaited operation rejects with e: the loop sleeps and goes on, or
\* goes on at once, or (searchCompanyJobsWithRetry) rethrows e
RetryOperationRejects(e) ==
  LET r == [retry EXCEPT !.errors = Append(@, e)] IN
  /\ retry.pc = "calling"
  /\ retry' = IF SleepsBeforeRetry(r.loop, r.attempt, r.limit)
                THEN [r EXCEPT !.pc = "sleeping"]
                ELSE IF r.loop = "executeWithRetry"
                  THEN Iterate(r)
                  ELSE [r EXCEPT !.pc = "thrown", !.result = Thrown(e)]
  /\ RetryStats(retry')
  /\ RetryFrame

\* the sleep between two attempts is over
RetrySleepOver ==
  /\ retry.pc = "sleeping"
  /\ retry' = Iterate(retry)
  /\ RetryStats(retry')
  /\ RetryFrame

RetryNext ==
  \/ \E loop \in Loops, limit \in 1..MaxAttempts : RetryCall(loop, limit)
  \/ RetryOperationResolves
  \/ \E e \in Errors : RetryOperationRejects(e)
  \/ RetrySleepOver

RetryInit == PoolInit /\ SchedInit("OptimizedScheduler") /\ RestInit

RetrySpec == RetryInit /\ [][RetryNext]_vars

\* C11: a retry loop with limit >= 1 whose operation first succeeds on
\* invocation k <= limit returns the value of invocation k after exactly k
\* invocations; when all invocations fail it has made exactly limit of them
\* and throws the error of the last one.
C11_RetryOutcome ==
  /\ retry.pc = "returned" =>
       /\ retry.calls = Len(retry.errors) + 1
       /\ retry.calls <= retry.limit
       /\ retry.result = Value(retry.calls)
  /\ retry.pc = "thrown" =>
       /\ retry.calls = retry.limit
       /\ Len(retry.errors) = retry.limit
       /\ retry.result = Thrown(retry.errors[retry.limit])

\* C11, its case: executeWithRetry with retries = 3 has failed three times,
\* the last error unlike the first, and has thrown
C11_Witness ==
  /\ retry.loop = "executeWithRetry"
  /\ retry.limit = 3
  /\ retry.calls = 3
  /\ retry.pc = "thrown"
  /\ Len(retry.errors) = 3
  /\ retry.errors[1] # retry.errors[3]

\* ---------------------------------------------------- CacheManager actions

CacheFrame == UNCHANGED <<poolVars, schedVars, retryVars, triggerVars, timeoutVars>>

\* getOrSet(cache, key, fetchFunction, ttl) up to its await: cache.get drops
\* an expired entry; a value other than undefined is returned at once,
\* otherwise fetchFunction is called
GetOrSet(c, region, key, ttl) ==
  LET e == caches[region][key]
      cached == Get(e, clock)
      hit == cached # "undefined"
  IN
  /\ gpc[c] = "new"
  /\ c = nextGet
  /\ nextGet' = nextGet + 1
  /\ caches' = [caches EXCEPT ![region][key] = IF Expired(e, clock) THEN NoEntry ELSE e]
  /\ cev' = CacheEvent("get", region, key, e, clock, hit, cached, 0)
  /\ gpc' = [gpc EXCEPT ![c] = IF hit THEN "done" ELSE "fetching"]
  /\ garg' = [garg EXCEPT ![c] =
                IF hit THEN NoArgs
                ELSE [region |-> region, key |-> key, ttl |-> EffectiveTtl(region, ttl)]]
  /\ UNCHANGED clock
  /\ CacheFrame

\* fetchFunction resolves with v: cache.set, then return data
FetchResolves(c, v) ==
  LET a == garg[c] IN
  /\ gpc[c] = "fetching"
  /\ caches' = [caches EXCEPT ![a.region][a.key] = Wrap(v, a.ttl, clock)]
  /\ cev' = CacheEvent("set", a.region, a.key, caches[a.region][a.key], clock, FALSE, v, 0)
  /\ gpc' = [gpc EXCEPT ![c] = "done"]
  /\ garg' = [garg EXCEPT ![c] = NoArgs]
  /\ UNCHANGED <<clock, nextGet>>
  /\ CacheFrame

\* fetchFunction rejects: the error is logged and rethrown
FetchRejects(c) ==
  LET a == garg[c] IN
  /\ gpc[c] = "fetching"
  /\ caches' = [caches EXCEPT ![a.region][a.key] = AfterFailure(@, clock)]
  /\ cev' = CacheEvent("throw", a.region, a.key, caches[a.region][a.key], clock, FALSE,
                       "error", 0)
  /\ gpc' = [gpc EXCEPT ![c] = "done"]
  /\ garg' = [garg EXCEPT ![c] = NoArgs]
  /\ UNCHANGED <<clock, nextGet>>
  /\ CacheFrame

\* one unit of time passes
CacheTick ==
  /\ clock < MaxClock
  /\ clock' = clock + 1
  /\ cev' = NoEvent
  /\ UNCHANGED <<caches, gpc, garg, nextGet>>
  /\ CacheFrame

\* node-cache's checkperiod timer of one store deletes its expired keys
CheckData(region) ==
  /\ caches' = [caches EXCEPT ![region] = Purge(@, clock)]
  /\ cev' = NoEvent
  /\ UNCHANGED <<clock, gpc, garg, nextGet>>
  /\ CacheFrame

\* invalidateCache(cacheType, pattern): undefined (here -1) for an unknown
\* cacheType, otherwise matchingKeys.length
invalidateCache(type, pattern) ==
  LET matchingKeys == {k \in Keys : caches[type][k].present /\ Includes(k, pattern)} IN
  /\ IF getCacheByType(type) = "null"
       THEN /\ cev' = CacheEvent("invalidate", type, pattern, NoEntry, clock, FALSE,
                                 "undefined", -1)
            /\ UNCHANGED caches
       ELSE /\ caches' = [caches EXCEPT ![type] =
                            [k \in Keys |-> IF k \in matchingKeys THEN NoEntry ELSE @[k]]]
            /\ cev' = CacheEvent("invalidate", type, pattern, NoEntry, clock, FALSE,
                                 "count", Cardinality(matchingKeys))
  /\ UNCHANGED <<clock, gpc, garg, nextGet>>
  /\ CacheFrame

\* clearAll(): flushAll on the four stores
clearAll ==
  /\ caches' = [r \in Regions |-> [k \in Keys |-> NoEntry]]
  /\ cev' = NoEvent
  /\ UNCHANGED <<clock, gpc, garg, nextGet>>
  /\ CacheFrame

CacheNext ==
  \/ \E c \in Gets, region \in Regions, key \in Keys, ttl \in Ttls : GetOrSet(c, region, key, ttl)
  \/ \E c \in Gets, v \in Values : FetchResolves(c, v)
  \/ \E c \in Gets : FetchRejects(c)
  \/ CacheTick
  \/ \E region \in Regions : CheckData(region)
  \/ invalidateCache("db", <<"a">>)
  \/ clearAll

CacheSpec == Init /\ [][CacheNext]_vars

\* invalidateCache and clearAll on every content the stores can have
InvalidateInit ==
  /\ PoolInit
  /\ SchedInit("Scheduler")
  /\ retry = NoRetry
  /\ manual = [permits |-> 0, jobs |-> 0, analysis |-> 0]
  /\ clock \in 0..MaxClock
  /\ caches \in [Regions -> [Keys -> {NoEntry, Wrap("data", 1, 0)}]]
  /\ gpc = [c \in Gets |-> "done"]
  /\ garg = [c \in Gets |-> NoArgs]
  /\ nextGet = MaxGets + 1
  /\ cev = NoEvent
  /\ TimeoutInit

InvalidateNext ==
  \/ \E type \in Regions \cup {"bogus"}, pattern \in Patterns : invalidateCache(type, pattern)
  \/ clearAll

InvalidateSpec == InvalidateInit /\ [][InvalidateNext]_vars

\* ----------------------------------------------------- CacheManager claims

C15_NoStaleRead ==
  (cev.op = "get" /\ cev.hit) =>
    (cev.found /\ cev.age <= cev.ttl /\ cev.returned = cev.stored)

\* C15, its case: a call met an entry older than its TTL that was still in
\* the store, and did not return it
C15_Witness == cev.op = "get" /\ cev.found /\ cev.age > cev.ttl /\ ~cev.hit

\* C16: when the producer fails the caller gets the error, no store changes,
\* and a key without an entry still has none, so the next call fetches again.
C16_FailureCachesNothing ==
  [][cev'.op = "throw" =>
       /\ cev'.returned = "error"
       /\ caches' = caches
       /\ ~cev'.found => Get(caches'[cev'.region][cev'.key], clock') = "undefined"]_vars

\* C16, its case: a producer has failed for a key with no entry while another
\* key holds one
C16_Witness ==
  /\ cev.op = "throw"
  /\ ~cev.found
  /\ \E r \in Regions, k \in Keys : caches[r][k].present

\* key = pre \o pattern \o suf for some pre and suf
Contains(key, pattern) ==
  \E i \in 1..(Len(key) + 1), j \in 0..Len(key) :
    /\ j >= i - 1
    /\ SubSeq(key, i, j) = pattern

\* C17: invalidateCache(region, pattern) removes exactly the keys of the
\* region that contain the pattern, returns how many it removed, and leaves
\* the other keys of the region and the other regions as they were.
C17_InvalidateExactly ==
  [][(cev'.op = "invalidate" /\ cev'.region \in Regions) =>
       LET r == cev'.region
           removed == {k \in Keys : caches[r][k].present /\ Contains(k, cev'.key)}
       IN /\ \A k \in Keys :
               caches'[r][k] = IF k \in removed THEN NoEntry ELSE caches[r][k]
          /\ \A q \in Regions \ {r} : caches'[q] = caches[q]
          /\ cev'.count = Cardinality(removed)]_vars

\* C17, its case: an invalidation by a pattern that is no prefix removed one
\* key of a store and left the other, with entries in another store
C17_Witness ==
  /\ cev.op = "invalidate"
  /\ cev.key = <<"b">>
  /\ cev.count = 1
  /\ \E k \in Keys : caches[cev.region][k].present
  /\ \E q \in Regions \ {cev.region}, k \in Keys : caches[q][k].present

\* the empty and negative results of the claim
EmptyResults == {"[]", "null", "0", "false", "''", "undefined"}

AnalysisTtl == 24

\* the text returned by createFallbackAnalysis()
createFallbackAnalysis == "fallback"

\* getAICache(key, fetchFunction, ttl = 7200)
getAICache(c, key, secs) == GetOrSet(c, "ai", key, [given |-> TRUE, secs |-> secs])

\* getCachedAnalysis(prompt, permits, jobs): the key is the hash of the data;
\* on a miss callOpenAIWithRateLimit(prompt) sends the request
getCachedAnalysis(c, dataHash) ==
  /\ getAICache(c, dataHash, AnalysisTtl)
  /\ UNCHANGED <<poolVars, schedVars>>

\* callOpenAI: the request succeeds and the content of the response is returned
OpenAIResponds(c) ==
  /\ FetchResolves(c, "data")
  /\ UNCHANGED <<poolVars, schedVars>>

\* callOpenAI: the request fails; the catch block returns the fallback analysis,
\* so the fetchFunction of getOrSet resolves with it
OpenAIFails(c) ==
  /\ FetchResolves(c, createFallbackAnalysis)
  /\ UNCHANGED <<poolVars, schedVars>>

AnalysisNext ==
  \/ \E c \in Gets, dataHash \in Keys : getCachedAnalysis(c, dataHash)
  \/ \E c \in Gets : OpenAIResponds(c)
  \/ \E c \in Gets : OpenAIFails(c)
  \/ CacheTick
  \/ CheckData("ai")

AnalysisSpec == Init /\ [][AnalysisNext]_vars

\* C18: a failed OpenAI request leaves no entry in the AI cache, so no
\* analysis key ever holds the fallback analysis and no later analysis reads
\* it from the cache.
C18_FailureNotCached ==
  /\ \A k \in Keys : caches["ai"][k].present => caches["ai"][k].v # createFallbackAnalysis
  /\ (cev.op = "get" /\ cev.hit) => cev.returned # createFallbackAnalysis

\* C28: two getOrSet calls for the same store and key never both have their
\* producer pending; the second joins the first one's fetch.
C28_MissesCoalesced ==
  \A c, d \in Gets :
    (c # d /\ gpc[c] = "fetching" /\ gpc[d] = "fetching")
      => <<garg[c].region, garg[c].key>> # <<garg[d].region, garg[d].key>>

\* ------------------------------------------- results cached through getOrSet
\* (src/src/scrapers/irvine-permits-optimized.js 45-48,
\*  src/src/scrapers/multi-city-permits.js 87-90, src/src/utils/monitor.js 329-343)

\* the 900 s passed by the scrapers and the 300 s passed by storeHealthReport
ScrapeTtl == 3
HealthTtl == 1

\* the result of the run that makes getOrSet call c: successive runs differ
RunResult(c) == IF c % 2 = 1 THEN "data" ELSE "[]"

\* getScrapingCache(key, fetchFunction, ttl = 900)
getScrapingCache(c, key, secs) ==
  GetOrSet(c, "scraping", key, [given |-> TRUE, secs |-> secs])

\* getMainCache(key, fetchFunction, ttl = 3600)
getMainCache(c, key, secs) == GetOrSet(c, "main", key, [given |-> TRUE, secs |-> secs])

\* scrape(): getScrapingCache('permits_recent', () => Promise.resolve(highValuePermits), 900)
scrape(c) ==
  /\ getScrapingCache(c, <<"a">>, ScrapeTtl)
  /\ UNCHANGED <<poolVars, schedVars>>

\* scrapeAllCities(): getScrapingCache('permits_multi_city',
\* () => Promise.resolve(results), 900)
scrapeAllCities(c) ==
  /\ getScrapingCache(c, <<"a", "b">>, ScrapeTtl)
  /\ UNCHANGED <<poolVars, schedVars>>

\* storeHealthReport(report): getMainCache('latest_health_report',
\* () => Promise.resolve(report), 300)
storeHealthReport(c) ==
  /\ getMainCache(c, <<"a">>, HealthTtl)
  /\ UNCHANGED <<poolVars, schedVars>>

\* the producer of call c, () => Promise.resolve(result), resolves
ResultResolves(c) ==
  /\ FetchResolves(c, RunResult(c))
  /\ UNCHANGED <<poolVars, schedVars>>

ResultNext ==
  \/ \E c \in Gets : scrape(c)
  \/ \E c \in Gets : scrapeAllCities(c)
  \/ \E c \in Gets : storeHealthReport(c)
  \/ \E c \in Gets : ResultResolves(c)
  \/ CacheTick
  \/ \E region \in {"scraping", "main"} : CheckData(region)

ResultSpec == Init /\ [][ResultNext]_vars

\* C29: when the step that caches the results of a run is complete, the
\* entry under its key holds the result of that run, also when the step found
\* an unexpired entry of an earlier run.
C29_LatestResultCached ==
  /\ (cev.op = "get" /\ cev.hit) => caches[cev.region][cev.key].v = RunResult(nextGet - 1)
  /\ cev.op = "set" => caches[cev.region][cev.key].v = cev.returned

\* ------------------------ OptimizedScheduler.runDataCollection in detail
\* (src/unnamed/part_003 174-225, 422-429): permitsScraper.scrape() and
\* jobMonitor.monitorJobs() are each raced against a five-minute timer by
\* timeoutPromise, and Promise.allSettled waits for the two races.

\* how many executions that lost their race are followed at once, per kind
MaxOrphans == 1

Parts == {"permits", "jobs"}

\* the executions of scrape() ("permits") or monitorJobs() ("jobs") started
\* by runDataCollection that have not finished
Executing(part) ==
  Cardinality({r \in Slots : collect[r][part] = "pending"}) + orphans[part]

TimeoutFrame ==
  UNCHANGED <<isRunning, multi, dataColl, analysis, timers, poolVars, scheduler, retryVars,
              triggerVars, cacheVars>>

\* runDataCollectionWithRetry: executeWithRetry calls runDataCollection, which
\* (unless skipped) sets both flags, starts the scrape and the job monitor and
\* awaits Promise.allSettled
runDataCollectionWithTimeout ==
  /\ scheduler = "OptimizedScheduler"
  /\ FreeRunners # {}
  /\ stats.totalJobs + (MaxOverlap - Cardinality(FreeRunners)) < MaxJobs
  /\ Operation(Lowest(FreeRunners), "data", 1, "cron")
  /\ collect' = IF OptGuard("data") THEN collect
                ELSE [collect EXCEPT ![Lowest(FreeRunners)] =
                        [permits |-> "pending", jobs |-> "pending"]]
  /\ UNCHANGED <<optTimers, orphans>>
  /\ TimeoutFrame

\* one of the two races of slot r is settled and leaves the parts as given:
\* with the other still pending nothing follows; with both settled
\* runDataCollection goes on to its end (timer for the analysis, return,
\* finally) and executeWithRetry records the success
RaceSettled(r, parts) ==
  IF "pending" \in {parts.permits, parts.jobs}
    THEN /\ collect' = [collect EXCEPT ![r] = parts]
         /\ ev' = {}
         /\ chain' = NoChain
         /\ UNCHANGED <<optTimers, optRunning, stats, runners>>
    ELSE /\ collect' = [collect EXCEPT ![r] = NoParts]
         /\ OperationSettles(r, IF NewData(totalItems(parts)) THEN "some" ELSE "empty")

\* scrape() or monitorJobs() of slot r finishes before its timer: the race is
\* settled with its result ("some", "empty") or its error ("rejected")
ScrapeSettles(r, part, res) ==
  /\ scheduler = "OptimizedScheduler"
  /\ collect[r][part] = "pending"
  /\ RaceSettled(r, [collect[r] EXCEPT ![part] = res])
  /\ UNCHANGED orphans
  /\ TimeoutFrame

\* the timer of timeoutPromise fires first: the race is rejected with
\* 'Operation timeout'; the scrape itself is not cancelled and runs on
ScrapeTimesOut(r, part) ==
  /\ scheduler = "OptimizedScheduler"
  /\ collect[r][part] = "pending"
  /\ orphans[part] < MaxOrphans
  /\ orphans' = [orphans EXCEPT ![part] = @ + 1]
  /\ RaceSettled(r, [collect[r] EXCEPT ![part] = "rejected"])
  /\ TimeoutFrame

\* a scrape that lost its race finishes at last; nobody awaits it
OrphanFinishes(part) ==
  /\ orphans[part] > 0
  /\ orphans' = [orphans EXCEPT ![part] = @ - 1]
  /\ ev' = {}
  /\ chain' = NoChain
  /\ UNCHANGED <<collect, optTimers, optRunning, stats, runners>>
  /\ TimeoutFrame

\* the analysis chained by runDataCollection ends
AnalysisOperationEnd(r, res) ==
  /\ runners[r].job = "analysis"
  /\ OperationEnd(r, res)

\* its executeWithRetry makes the next attempt
AnalysisRetryAfterSleep(r) ==
  /\ runners[r].job = "analysis"
  /\ RetryAfterSleep(r)

TimeoutNext ==
  \/ runDataCollectionWithTimeout
  \/ \E r \in Slots, part \in Parts, res \in {"some", "empty", "rejected"} :
       ScrapeSettles(r, part, res)
  \/ \E r \in Slots, part \in Parts : ScrapeTimesOut(r, part)
  \/ \E part \in Parts : OrphanFinishes(part)
  \/ ChainedAnalysisWithRetry
  \/ \E r \in Slots, res \in {"some", "throw"} : AnalysisOperationEnd(r, res)
  \/ \E r \in Slots : AnalysisRetryAfterSleep(r)

TimeoutSpecInit == PoolInit /\ SchedInit("OptimizedScheduler") /\ RestInit

TimeoutSpec == TimeoutSpecInit /\ [][TimeoutNext]_vars

\* C30: whenever isRunning.permits and isRunning.jobs are both false, no
\* scrape or job monitoring started by runDataCollection is still executing,
\* and no two executions of the same kind overlap.
C30_FlagsTellWhatRuns ==
  /\ (~optRunning.permits /\ ~optRunning.jobs) => \A part \in Parts : Executing(part) = 0
  /\ \A part \in Parts : Executing(part) <= 1

====
